---- MODULE Spec2Model ----
(***************************************************************************)
(* A model of email_summary_bot/run_once.py: one run of the digest         *)
(* pipeline (main and the __main__ exit handler) with its pure helpers     *)
(* (parse_tsv, build_prompt, the response scan of gemini_request,          *)
(* summarize_emails, format_discord_payload).                              *)
(*                                                                         *)
(* Python values are represented as follows.                               *)
(*   str            a TLA+ string (Len, SubSeq and \o act on characters)   *)
(*   None / a str   None == <<>>, Some(s) == <<s>>                         *)
(*   dict           a function whose DOMAIN is the set of keys present     *)
(*   list           a sequence                                             *)
(* The em dash of the digest's entry header is one character in Python;    *)
(* it is written "~" here (one character), the module being ASCII.         *)
(*                                                                         *)
(* Spec is one run of main(); SpecFair is Spec with every enabled step     *)
(* eventually taken; SpecCall calls format_discord_payload and one request *)
(* of summarize_emails' loop on their own.                                 *)
(***************************************************************************)
EXTENDS Integers, Sequences, FiniteSets, TLC

\* ------------------------------------------------------------ bounds
\* Most data rows in an export file (the header row is not counted).
MaxRows == 3
\* Largest non-negative --max-emails override tried (the default of 15 and
\* a negative override are tried as well).
MaxCap == 2
\* Largest exit status of the export mechanism tried (1..MaxExportCode).
MaxExportCode == 2

\* ------------------------------------------------- program constants
DefaultLookback == 60
DefaultMaxEmails == 15
BodyCap == 4000
ContentCap == 1900
DividerWidth == 30
ConfigErrorExit == 1
\* An exception that leaves the __main__ block uncaught ends the
\* interpreter with status 1.
UncaughtExit == 1

\* ------------------------------------------------------ Python values
None == <<>>
Some(s) == <<s>>
IsNone(v) == v = None

\* str(v) as str.format and f-strings render a value.
Str(v) == IF IsNone(v) THEN "None" ELSE v[1]

EmptyDict == [k \in {} |-> None]

\* dict.get(key, default): the default only when the key is absent.
Get(d, key, default) == IF key \in DOMAIN d THEN d[key] ELSE Some(default)

\* bool(config.get(key)): absent, None and "" are all falsy.
Truthy(d, key) == key \in DOMAIN d /\ ~IsNone(d[key]) /\ d[key][1] # ""

Min(a, b) == IF a <= b THEN a ELSE b
Max(a, b) == IF a >= b THEN a ELSE b

\* s[:n] on a str or list, for any integer n (a negative n counts from the end).
SliceTo(s, n) ==
  IF n >= 0 THEN SubSeq(s, 1, Min(n, Len(s)))
  ELSE SubSeq(s, 1, Max(Len(s) + n, 0))

Char(s, i) == SubSeq(s, i, i)

Whitespace == {" ", "\n", "\t", "\r"}

\* The recursive operators below take their arguments through
\* [x \in {e} |-> ...][e], which evaluates an argument once at each turn of
\* the recursion and changes nothing in what is computed.
RECURSIVE LStrip(_)
LStrip(text) ==
  [s \in {text} |->
     IF Len(s) > 0 /\ Char(s, 1) \in Whitespace
     THEN LStrip(SubSeq(s, 2, Len(s)))
     ELSE s][text]

RECURSIVE RStrip(_)
RStrip(text) ==
  [s \in {text} |->
     IF Len(s) > 0 /\ Char(s, Len(s)) \in Whitespace
     THEN RStrip(SubSeq(s, 1, Len(s) - 1))
     ELSE s][text]

\* str.strip()
Strip(s) == RStrip(LStrip(s))

\* The length of the first line of s: the characters before its first line break.
FirstLineLen(text, from) ==
  [s \in {text}, i \in {from} |->
     LET breaks == {k \in i..Len(s) : Char(s, k) \in {"\n", "\r"}}
     IN IF breaks = {} THEN Len(s)
        ELSE (CHOOSE k \in breaks : \A j \in breaks : k <= j) - 1][text, from]

\* The whole text where its first line is meant.
FirstLine_Whole(s) == s

\* s.splitlines()[0] for a non-empty s
FirstLine(s) == SubSeq(s, 1, FirstLineLen(s, 1))

\* "\n".join(lines)
RECURSIVE JoinLines(_)
JoinLines(list) ==
  [lines \in {list} |->
     IF Len(lines) = 0 THEN ""
     ELSE IF Len(lines) = 1 THEN lines[1]
     ELSE lines[1] \o "\n" \o JoinLines(Tail(lines))][list]

\* c * n for a one-character string c
RECURSIVE Repeat(_, _)
Repeat(c, times) ==
  [n \in {times} |->
     IF n <= 0 THEN ""
     ELSE IF n % 2 = 1 THEN c \o Repeat(c, n - 1)
     ELSE Repeat(c, n \div 2) \o Repeat(c, n \div 2)][times]

\* Python orders strings by code point; these are the characters of the
\* timestamps used, in code-point order.
CodePointOrder == "-0123456789:T"

Ord(c) == CHOOSE i \in 1..Len(CodePointOrder) : Char(CodePointOrder, i) = c

\* a < b on two strs
RECURSIVE StrLess(_, _)
StrLess(left, right) ==
  [a \in {left}, b \in {right} |->
     IF Len(b) = 0 THEN FALSE
     ELSE IF Len(a) = 0 THEN TRUE
     ELSE IF Char(a, 1) = Char(b, 1)
          THEN StrLess(SubSeq(a, 2, Len(a)), SubSeq(b, 2, Len(b)))
          ELSE Ord(Char(a, 1)) < Ord(Char(b, 1))][left, right]

\* ----------------------------------------------------------- parse_tsv
\* A file on disk, as csv.reader sees it: whether the path exists and the
\* list of field lists of its lines (a blank line reads as the empty list).
NoFile == [exists |-> FALSE, rows |-> <<>>]
FileOf(rows) == [exists |-> TRUE, rows |-> rows]

\* The key csv.DictReader files surplus fields under (restkey=None).
RestKey == "<restkey>"

\* One dict of csv.DictReader: dict(zip(fieldnames, row)), the surplus fields
\* of a long row under restkey, None (restval) for the fields a short row lacks.
DictRow(fieldnames, row) ==
  LET lf == Len(fieldnames)
      lr == Len(row)
      zipped == [k \in {fieldnames[i] : i \in 1..Min(lf, lr)} |->
                   Some(row[CHOOSE i \in 1..Min(lf, lr) :
                              /\ fieldnames[i] = k
                              /\ \A j \in (i + 1)..Min(lf, lr) : fieldnames[j] # k])]
  IN IF lf < lr THEN zipped @@ (RestKey :> SubSeq(row, lf + 1, lr))
     ELSE IF lf > lr
          THEN zipped @@ [k \in {fieldnames[i] : i \in (lr + 1)..lf} |-> None]
          ELSE zipped

\* csv.DictReader over the lines: the first line names the fields, blank
\* lines after it are skipped.
RECURSIVE DictRows(_, _)
DictRows(header, rest) ==
  [fieldnames \in {header}, lines \in {rest} |->
     IF Len(lines) = 0 THEN <<>>
     ELSE IF Head(lines) = <<>> THEN DictRows(fieldnames, Tail(lines))
     ELSE <<DictRow(fieldnames, Head(lines))>> \o DictRows(fieldnames, Tail(lines))
  ][header, rest]

DictReader(lines) ==
  IF Len(lines) = 0 THEN <<>> ELSE DictRows(Head(lines), Tail(lines))

\* [row for row in reader if row]: an empty dict is falsy.
RECURSIVE NonEmptyRows(_)
NonEmptyRows(dicts) ==
  [ds \in {dicts} |->
     IF Len(ds) = 0 THEN <<>>
     ELSE IF DOMAIN Head(ds) = {} THEN NonEmptyRows(Tail(ds))
     ELSE <<Head(ds)>> \o NonEmptyRows(Tail(ds))][dicts]

\* row["received_at"] = row.get("received_at", "")
DefaultReceivedAt(row) ==
  IF "received_at" \in DOMAIN row THEN row
  ELSE row @@ ("received_at" :> Some(""))

SortKey(row) == Get(row, "received_at", "")

\* A sort that leaves the rows in the order of the file.
InsertDesc_FileOrder(list, new) == Append(list, new)

\* Where a row goes in a descending list: after every row whose key is not
\* smaller than its own, so rows with equal keys keep their order.
RECURSIVE InsertDesc(_, _)
InsertDesc(list, new) ==
  [sorted \in {list}, row \in {new} |->
     IF Len(sorted) = 0 THEN <<row>>
     ELSE IF StrLess(Str(SortKey(Head(sorted))), Str(SortKey(row)))
          THEN <<row>> \o sorted
          ELSE <<Head(sorted)>> \o InsertDesc(Tail(sorted), row)][list, new]

RECURSIVE SortDesc(_, _)
SortDesc(sorted, unsorted) ==
  [done \in {sorted}, todo \in {unsorted} |->
     IF Len(todo) = 0 THEN done
     ELSE SortDesc(InsertDesc(done, Head(todo)), Tail(todo))][sorted, unsorted]

\* list.sort compares every element of a list of two or more; None does not
\* compare with a str or with None, and the comparison raises TypeError.
SortRaises(rows) ==
  Len(rows) >= 2 /\ \E i \in 1..Len(rows) : IsNone(SortKey(rows[i]))

\* A call's result: the exception it raised ("" for none), else its value.
Returned(v) == [exc |-> "", val |-> v]
Raised(e) == [exc |-> e, val |-> <<>>]

\* The loop of lines 102-103 over the rows read.
WithReceivedAt(read) ==
  [rows \in {read} |-> [i \in 1..Len(rows) |-> DefaultReceivedAt(rows[i])]][read]

\* rows.sort(key=..., reverse=True) and the return (lines 104-105)
SortRows(list) ==
  [rows \in {list} |->
     IF SortRaises(rows) THEN Raised("TypeError")
     ELSE Returned(SortDesc(<<>>, rows))][list]

\* parse_tsv once the path is known to exist (lines 99-105)
ParseRows(lines) == SortRows(WithReceivedAt(NonEmptyRows(DictReader(lines))))

\* parse_tsv without its check that the path exists: opening a missing
\* file raises.
parse_tsv_NoExistsCheck(file) ==
  IF ~file.exists THEN Raised("FileNotFoundError") ELSE ParseRows(file.rows)

parse_tsv(file) ==
  IF ~file.exists THEN Returned(<<>>) ELSE ParseRows(file.rows)

\* -------------------------------------------------------- build_prompt
PromptHead ==
  "Summarize the following unread email in under 70 words. "
    \o "Highlight sender, topic, and any action items. Use single paragraph."

build_prompt(email_row) ==
  LET body == Get(email_row, "body", "")
  IN IF IsNone(body) THEN Raised("TypeError")
     ELSE Returned(
       PromptHead \o "\n"
         \o "Sender: " \o Str(Get(email_row, "sender", "Unknown")) \o "\n"
         \o "Subject: " \o Str(Get(email_row, "subject", "(no subject)")) \o "\n"
         \o "Received: " \o Str(Get(email_row, "received_at", "")) \o "\n"
         \o "Body:\n" \o SliceTo(body[1], BodyCap) \o "\n")

\* ------------------------------------------------------ gemini_request
\* What the backend does with one request: a transport failure, a non-2xx
\* response, or a JSON body given as its list of candidates, each the list
\* of its parts, each part its "text" (None when the part has none).  A
\* missing "candidates", "content" or "parts" reads as an empty list.
TransportFailure == [kind |-> "URLError", candidates |-> <<>>]
HttpFailure == [kind |-> "HTTPError", candidates |-> <<>>]
Response(cands) == [kind |-> "response", candidates |-> cands]

\* The first truthy text among a candidate's parts, or None.
RECURSIVE FirstText(_)
FirstText(list) ==
  [parts \in {list} |->
     IF Len(parts) = 0 THEN None
     ELSE IF ~IsNone(Head(parts)) /\ Head(parts)[1] # "" THEN Head(parts)
     ELSE FirstText(Tail(parts))][list]

\* A scan that looks at the first candidate only.
ScanCandidates_FirstOnly(list) ==
  IF Len(list) = 0 THEN None ELSE FirstText(Head(list))

RECURSIVE ScanCandidates(_)
ScanCandidates(list) ==
  [cands \in {list} |->
     IF Len(cands) = 0 THEN None
     ELSE IF ~IsNone(FirstText(Head(cands))) THEN FirstText(Head(cands))
     ELSE ScanCandidates(Tail(cands))][list]

gemini_request(outcome) ==
  IF outcome.kind # "response" THEN Raised(outcome.kind)
  ELSE LET text == ScanCandidates(outcome.candidates)
       IN IF IsNone(text) THEN Raised("RuntimeError")
          ELSE Returned(Strip(text[1]))

\* ---------------------------------------------- format_discord_payload
Divider == Repeat("-", DividerWidth)

RECURSIVE EntryLines(_)
EntryLines(list) ==
  [ss \in {list} |->
     IF Len(ss) = 0 THEN <<>>
     ELSE << "**" \o Str(Head(ss).sender) \o " ~ " \o Str(Head(ss).subject) \o "**",
             Strip(Head(ss).summary),
             Divider >> \o EntryLines(Tail(ss))][list]

\* The digest with the divider after its last entry left in.
AssembledContent_TrailingDivider(summaries, timestamp) ==
  JoinLines(<<"**UTD Mail Digest - " \o timestamp \o "**">> \o EntryLines(summaries))

\* The digest before the cap: the lines joined, without a trailing divider.
AssembledContent(summaries, timestamp) ==
  LET lines == <<"**UTD Mail Digest - " \o timestamp \o "**">> \o EntryLines(summaries)
  IN JoinLines(IF lines[Len(lines)] = Divider
               THEN SubSeq(lines, 1, Len(lines) - 1)
               ELSE lines)

\* format_discord_payload without the final cut.
format_discord_payload_NoCap(summaries, timestamp) ==
  [content |-> AssembledContent(summaries, timestamp)]

format_discord_payload(summaries, timestamp) ==
  [content |-> SliceTo(AssembledContent(summaries, timestamp), ContentCap)]

\* ------------------------------------------------------ str() and int()
Digits == "0123456789"

DigitOf(c) == (CHOOSE i \in 1..10 : Char(Digits, i) = c) - 1

IsDigit(c) == \E i \in 1..10 : Char(Digits, i) = c

RECURSIVE NatToStr(_)
NatToStr(number) ==
  [n \in {number} |->
     IF n < 10 THEN Char(Digits, n + 1)
     ELSE NatToStr(n \div 10) \o Char(Digits, (n % 10) + 1)][number]

\* str(n) for an int n
IntToStr(n) == IF n < 0 THEN "-" \o NatToStr(0 - n) ELSE NatToStr(n)

RECURSIVE StrToNat(_, _)
StrToNat(digits, sofar) ==
  [s \in {digits}, acc \in {sofar} |->
     IF Len(s) = 0 THEN acc
     ELSE StrToNat(SubSeq(s, 2, Len(s)), 10 * acc + DigitOf(Char(s, 1)))][digits, sofar]

AllDigits(s) == Len(s) > 0 /\ \A i \in 1..Len(s) : IsDigit(Char(s, i))

\* int(s): surrounding whitespace and one sign are accepted, anything else
\* raises ValueError.
ParseInt(s) ==
  LET t == Strip(s)
      signed == Len(t) > 0 /\ Char(t, 1) \in {"-", "+"}
      digits == IF signed THEN SubSeq(t, 2, Len(t)) ELSE t
  IN IF ~AllDigits(digits) THEN Raised("ValueError")
     ELSE IF signed /\ Char(t, 1) = "-" THEN Returned(0 - StrToNat(digits, 0))
     ELSE Returned(StrToNat(digits, 0))

\* ------------------------------------------------------ resolve_config
\* config[key] = value
SetKey(d, key, value) ==
  [k \in DOMAIN d \cup {key} |-> IF k = key THEN value ELSE d[k]]

\* config.setdefault(key, value)
SetDefault(d, key, value) == IF key \in DOMAIN d THEN d ELSE SetKey(d, key, value)

Required == <<"GEMINI_API_KEY", "DISCORD_WEBHOOK">>

\* [key for key in required if not config.get(key)], as the set of its keys
Missing(config) == {Required[i] : i \in {j \in 1..Len(Required) : ~Truthy(config, Required[j])}}

Overridden(args, env_values) ==
  LET c1 == IF IsNone(args.lookback) THEN env_values
            ELSE SetKey(env_values, "LOOKBACK_MINUTES", Some(IntToStr(args.lookback[1])))
  IN IF IsNone(args.max_emails) THEN c1
     ELSE SetKey(c1, "MAX_EMAILS", Some(IntToStr(args.max_emails[1])))

\* resolve_config without its check of the required keys.
ConfigRaises_NoCheck(args, env_values) == FALSE

\* resolve_config raising on a missing key in a dry run as well.
ConfigRaises_IgnoreDryRun(args, env_values) ==
  Missing(Overridden(args, env_values)) # {}

ConfigRaises(args, env_values) ==
  Missing(Overridden(args, env_values)) # {} /\ ~args.dry_run

resolve_config(args, env_values) ==
  IF ConfigRaises(args, env_values) THEN Raised("ConfigError")
  ELSE Returned(
    SetDefault(
      SetDefault(
        SetDefault(Overridden(args, env_values),
                   "LOOKBACK_MINUTES", Some(IntToStr(DefaultLookback))),
        "MAX_EMAILS", Some(IntToStr(DefaultMaxEmails))),
      "GEMINI_MODEL", Some("gemini-1.5-flash")))

\* ---------------------------------------------------------- the inputs
\* The .env files tried: complete; complete with MAX_EMAILS=1; without the
\* API key; with an empty webhook; complete with a MAX_EMAILS that is no number.
EnvFull == ("GEMINI_API_KEY" :> Some("k3y")) @@ ("DISCORD_WEBHOOK" :> Some("https://hook"))
EnvCapOne == EnvFull @@ ("MAX_EMAILS" :> Some("1"))
EnvNoGemini == ("DISCORD_WEBHOOK" :> Some("https://hook"))
EnvEmptyDiscord == ("GEMINI_API_KEY" :> Some("k3y")) @@ ("DISCORD_WEBHOOK" :> Some(""))
EnvBadCap == EnvFull @@ ("MAX_EMAILS" :> Some("abc"))

Envs == {EnvFull, EnvCapOne, EnvNoGemini, EnvEmptyDiscord, EnvBadCap}

\* --max-emails: not given, negative, or 0..MaxCap
CapArgs == {None} \cup {Some(n) : n \in (0 - 1)..MaxCap}

ArgSets == [dry_run : BOOLEAN, lookback : {None}, max_emails : CapArgs]

\* The header row and the data lines an export is made of: two complete
\* rows, a row cut short after two fields, a blank line.
Header == <<"sender", "subject", "received_at", "body">>
LineAlice == <<"Alice", "Budget", "2024-01-01T10:00", "Need approval">>
LineBob == <<"Bob", "Lunch", "2024-01-01T09:00", "Noon?">>
LineShort == <<"Carol", "Hello">>
LineBlank == <<>>

DataLines == {LineAlice, LineBob, LineShort, LineBlank}

\* Further exports: a row whose sender and subject are present but empty; an
\* export whose only column is the body; a row with a field too many.
LineAnon == <<"", "", "2024-01-01T08:00", "Hi">>
LineLong == <<"Dave", "Notes", "2024-01-01T07:00", "See", "attached">>
HeaderBare == <<"body">>

OtherFiles ==
  { FileOf(<<Header, LineAnon>>),
    FileOf(<<Header, LineAlice, LineAnon>>),
    FileOf(<<HeaderBare, <<"Hi">>, <<"Yo">> >>),
    FileOf(<<Header, LineLong>>) }

LineLists == UNION {[1..n -> DataLines] : n \in 0..MaxRows}

\* What a successful export leaves at the path: nothing (the path removed),
\* the empty file mkstemp made, or a header row and up to MaxRows lines.
ExportFiles ==
  {NoFile, FileOf(<<>>)} \cup {FileOf(<<Header>> \o ls) : ls \in LineLists}
    \cup OtherFiles

Chunk == Repeat("x", 100)
LongText == Chunk \o Chunk \o Chunk \o Chunk \o Chunk \o Chunk \o Chunk \o Chunk \o Chunk \o Chunk

\* What the summarization backend may answer to one request.
GeminiOutcomes ==
  { TransportFailure,
    HttpFailure,
    Response(<<>>),
    Response(<< <<None, Some("")>>, <<Some("  Budget needs approval.\n")>> >>),
    Response(<< <<Some(LongText)>> >>) }

\* What the webhook may answer to the post.
DiscordOutcomes == {"ok", "HTTPError", "URLError"}

\* datetime.now() as "%Y-%m-%d %H:%M"
Timestamps == {"2024-01-01 10:05", "2024-01-01 11:05"}

\* ------------------------------------------------------------ the state
VARIABLES
  pc,            \* where the run is: the stage about to be carried out
  args,          \* the parsed command line
  env_values,    \* the .env file's pairs
  config,        \* resolve_config's result
  lookback,      \* int(config["LOOKBACK_MINUTES"])
  max_emails,    \* int(config["MAX_EMAILS"])
  tmp_created,   \* mkstemp has made the temporary export file
  tmp,           \* the file at the temporary export path
  emails,        \* parse_tsv's result
  rows,          \* summarize_emails' argument, emails[:max_emails]
  idx,           \* summarize_emails' loop: the next row, from 1
  summaries,     \* summarize_emails' list
  attempts,      \* per row handled by the loop, whether it gave a summary
  payload,       \* format_discord_payload's result
  pending,       \* how main() is ending: its return value or its exception
  outcome,       \* the terminal outcome of the run ("" while it runs)
  exit_code,     \* the process exit status (-1 while it runs)
  export_calls,  \* osascript runs made
  gemini_calls,  \* the prompts sent to the summarization backend, in order
  discord_calls, \* the payloads posted to the webhook, in order
  log,           \* the messages logged, in order
  fn_call,       \* a function called on its own: its name and arguments
  fn_result      \* what that call gave

vars ==
  << pc, args, env_values, config, lookback, max_emails, tmp_created, tmp, emails,
     rows, idx, summaries, attempts, payload, pending, outcome, exit_code,
     export_calls, gemini_calls, discord_calls, log, fn_call, fn_result >>

\* No function is being called on its own: the program runs from main().
NoCall == [fn |-> "", arguments |-> <<>>]

NoResult == [kind |-> "none", exc |-> "", code |-> 0]
Return(v) == [kind |-> "return", exc |-> "", code |-> v]
Raise(e, returncode) == [kind |-> "raise", exc |-> e, code |-> returncode]

Init ==
  /\ pc = "START"
  /\ args \in ArgSets
  /\ env_values \in Envs
  /\ config = EmptyDict
  /\ lookback = 0
  /\ max_emails = 0
  /\ tmp_created = FALSE
  /\ tmp = NoFile
  /\ emails = <<>>
  /\ rows = <<>>
  /\ idx = 1
  /\ summaries = <<>>
  /\ attempts = <<>>
  /\ payload = [content |-> ""]
  /\ pending = NoResult
  /\ outcome = ""
  /\ exit_code = 0 - 1
  /\ export_calls = 0
  /\ gemini_calls = <<>>
  /\ discord_calls = <<>>
  /\ log = <<>>
  /\ fn_call = NoCall
  /\ fn_result = <<>>

\* main(), lines 197-204: the configuration is resolved and its two numbers
\* are read.  An exception here is raised before the try block is entered.
Begin ==
  /\ pc = "START"
  /\ \E r \in {resolve_config(args, env_values)} :
        IF r.exc # ""
        THEN /\ pending' = Raise(r.exc, 0)
             /\ outcome' = "CONFIG_ERROR"
             /\ pc' = "HANDLER"
             /\ UNCHANGED <<config, lookback, max_emails>>
        ELSE \E lb \in {ParseInt(r.val["LOOKBACK_MINUTES"][1])},
                me \in {ParseInt(r.val["MAX_EMAILS"][1])} :
                IF lb.exc # "" \/ me.exc # ""
                THEN /\ pending' = Raise("ValueError", 0)
                     /\ outcome' = "FAILED"
                     /\ pc' = "HANDLER"
                     /\ config' = r.val
                     /\ UNCHANGED <<lookback, max_emails>>
                ELSE /\ config' = r.val
                     /\ lookback' = lb.val
                     /\ max_emails' = me.val
                     /\ pc' = "MKSTEMP"
                     /\ UNCHANGED <<pending, outcome>>
  /\ UNCHANGED << fn_call, fn_result, args, env_values, tmp_created, tmp, emails, rows, idx, summaries,
                  attempts, payload, exit_code, export_calls, gemini_calls,
                  discord_calls, log >>

\* main(), lines 206-208: the temporary export file is made, empty.
Mkstemp ==
  /\ pc = "MKSTEMP"
  /\ tmp' = FileOf(<<>>)
  /\ tmp_created' = TRUE
  /\ pc' = "EXPORTING"
  /\ UNCHANGED << fn_call, fn_result, args, env_values, config, lookback, max_emails, emails, rows, idx,
                  summaries, attempts, payload, pending, outcome, exit_code,
                  export_calls, gemini_calls, discord_calls, log >>

\* run_applescript: the script is missing (FileNotFoundError), or osascript
\* runs and exits non-zero (CalledProcessError with its status), or exits 0
\* having left some export at the path.
RunApplescript ==
  /\ pc = "EXPORTING"
  /\ \/ /\ pending' = Raise("FileNotFoundError", 0)
        /\ outcome' = "FAILED"
        /\ pc' = "FINALLY"
        /\ UNCHANGED <<tmp, export_calls, log>>
     \/ \E rc \in 1..MaxExportCode, f \in {tmp, NoFile} :
          /\ export_calls' = export_calls + 1
          /\ log' = Append(log, <<"Running AppleScript export", IntToStr(max_emails), IntToStr(lookback)>>)
          /\ tmp' = f
          /\ pending' = Raise("CalledProcessError", rc)
          /\ outcome' = "FAILED"
          /\ pc' = "FINALLY"
     \/ \E f \in ExportFiles :
          /\ export_calls' = export_calls + 1
          /\ log' = Append(log, <<"Running AppleScript export", IntToStr(max_emails), IntToStr(lookback)>>)
          /\ tmp' = f
          /\ pc' = "PARSING"
          /\ UNCHANGED <<pending, outcome>>
  /\ UNCHANGED << fn_call, fn_result, args, env_values, config, lookback, max_emails, tmp_created, emails,
                  rows, idx, summaries, attempts, payload, exit_code, gemini_calls,
                  discord_calls >>

\* main(), lines 211-215: the export is parsed; no rows ends the run with 0.
ParseTsv ==
  /\ pc = "PARSING"
  /\ \E r \in {parse_tsv(tmp)} :
     LET seen == IF tmp.exists THEN log ELSE Append(log, <<"No TSV export found">>)
     IN IF r.exc # ""
        THEN /\ pending' = Raise(r.exc, 0)
             /\ outcome' = "FAILED"
             /\ pc' = "FINALLY"
             /\ UNCHANGED <<emails, log>>
        ELSE IF Len(r.val) = 0
        THEN /\ emails' = r.val
             /\ log' = Append(seen, <<"No unread emails found in lookback window; exiting.">>)
             /\ pending' = Return(0)
             /\ outcome' = "DONE_EMPTY_EXPORT"
             /\ pc' = "FINALLY"
        ELSE /\ emails' = r.val
             /\ log' = Append(seen, <<"Read unread emails from Apple Mail", IntToStr(Len(r.val))>>)
             /\ pc' = "CAPPING"
             /\ UNCHANGED <<pending, outcome>>
  /\ UNCHANGED << fn_call, fn_result, args, env_values, config, lookback, max_emails, tmp_created, tmp,
                  rows, idx, summaries, attempts, payload, exit_code, export_calls,
                  gemini_calls, discord_calls >>

\* summarize_emails given every parsed row.
CapRows_Uncapped(parsed, cap) == parsed

\* emails[:max_emails] (line 216)
CapRows(parsed, cap) == SliceTo(parsed, cap)

\* main(), line 216: emails[:max_emails] is what summarize_emails is given.
Cap ==
  /\ pc = "CAPPING"
  /\ rows' = CapRows(emails, max_emails)
  /\ idx' = 1
  /\ summaries' = <<>>
  /\ attempts' = <<>>
  /\ pc' = "SUMMARIZING"
  /\ UNCHANGED << fn_call, fn_result, args, env_values, config, lookback, max_emails, tmp_created, tmp,
                  emails, payload, pending, outcome, exit_code, export_calls,
                  gemini_calls, discord_calls, log >>

\* The SummaryRecord of a row and its summary text (line 164).
SummaryOf(row, text) ==
  [ sender |-> Get(row, "sender", "Unknown"),
    subject |-> Get(row, "subject", "(no subject)"),
    summary |-> text ]

\* The loop without its continue: a failed request still appends a record.
AfterAttempt_NoContinue(done, row, got) ==
  Append(done, SummaryOf(row, IF got.exc # "" THEN "" ELSE got.val))

\* The list of summaries after one request (lines 159-164): a request that
\* raised leaves it as it was (continue), an answer is appended.
AfterAttempt(done, row, got) ==
  IF got.exc # "" THEN done ELSE Append(done, SummaryOf(row, got.val))

\* summarize_emails, one turn of its loop (lines 154-164): the prompt is
\* built; in a dry run the summary is made from the prompt's first line, else
\* the backend is asked once and a failure of the request skips the row.
SummarizeOne ==
  /\ pc = "SUMMARIZING"
  /\ idx <= Len(rows)
  /\ \E row \in {rows[idx]} : \E prompt \in {build_prompt(row)} :
        IF prompt.exc # ""
        THEN /\ pending' = Raise(prompt.exc, 0)
             /\ outcome' = "FAILED"
             /\ pc' = "FINALLY"
             /\ UNCHANGED <<idx, summaries, attempts, gemini_calls, log>>
        ELSE IF args.dry_run
        THEN /\ summaries' = Append(summaries, SummaryOf(row, "[dry-run] " \o FirstLine(prompt.val)))
             /\ attempts' = Append(attempts, TRUE)
             /\ idx' = idx + 1
             /\ UNCHANGED <<pc, pending, outcome, gemini_calls, log>>
        ELSE \E answer \in GeminiOutcomes : \E got \in {gemini_request(answer)} :
                  /\ gemini_calls' = Append(gemini_calls, prompt.val)
                  /\ idx' = idx + 1
                  /\ summaries' = AfterAttempt(summaries, row, got)
                  /\ attempts' = Append(attempts, got.exc = "")
                  /\ log' = IF got.exc = "" THEN log
                            ELSE Append(log, <<"Gemini summarization failed for",
                                               Str(Get(row, "subject", "None"))>>)
                  /\ UNCHANGED <<pc, pending, outcome>>
  /\ UNCHANGED << fn_call, fn_result, args, env_values, config, lookback, max_emails, tmp_created, tmp,
                  emails, rows, payload, exit_code, export_calls, discord_calls >>

RECURSIVE DryRunLines(_)
DryRunLines(list) ==
  [ss \in {list} |->
     IF Len(ss) = 0 THEN <<>>
     ELSE << <<"[DRY RUN]", Str(Head(ss).sender), Str(Head(ss).subject), Head(ss).summary>> >>
            \o DryRunLines(Tail(ss))][list]

\* main() without its dry-run return.
Decide_IgnoreDryRun(made, dry_run) ==
  IF Len(made) = 0 THEN "DONE_EMPTY_SUMMARY" ELSE "FORMATTING"

\* main() without its return on an empty list of summaries.
Decide_SendEmpty(made, dry_run) ==
  IF dry_run
  THEN (IF Len(made) = 0 THEN "DONE_EMPTY_SUMMARY" ELSE "DRY_RUN_DONE")
  ELSE "FORMATTING"

\* What main() does with the summaries (lines 217-224): nothing to send,
\* a dry run's end, or on to the digest.
Decide(made, dry_run) ==
  IF Len(made) = 0 THEN "DONE_EMPTY_SUMMARY"
  ELSE IF dry_run THEN "DRY_RUN_DONE"
  ELSE "FORMATTING"

\* A loop that looks for one row more than there are.
LoopDone_OneMore(i, given) == i > Len(given) + 1

\* The for loop of summarize_emails (line 154) has gone through every row.
LoopDone(i, given) == i > Len(given)

\* summarize_emails returns (line 165) and main() decides (lines 217-223):
\* no summaries ends the run with 0, a dry run logs them and ends with 0.
SummarizeReturn ==
  /\ pc = "SUMMARIZING"
  /\ LoopDone(idx, rows)
  /\ IF Decide(summaries, args.dry_run) = "DONE_EMPTY_SUMMARY"
     THEN /\ log' = Append(log, <<"No summaries generated; nothing to send.">>)
          /\ pending' = Return(0)
          /\ outcome' = "DONE_EMPTY_SUMMARY"
          /\ pc' = "FINALLY"
     ELSE IF Decide(summaries, args.dry_run) = "DRY_RUN_DONE"
     THEN /\ log' = log \o DryRunLines(summaries)
          /\ pending' = Return(0)
          /\ outcome' = "DRY_RUN_DONE"
          /\ pc' = "FINALLY"
     ELSE /\ pc' = "FORMATTING"
          /\ UNCHANGED <<log, pending, outcome>>
  /\ UNCHANGED << fn_call, fn_result, args, env_values, config, lookback, max_emails, tmp_created, tmp,
                  emails, rows, idx, summaries, attempts, payload, exit_code,
                  export_calls, gemini_calls, discord_calls >>

\* main(), line 224
Format ==
  /\ pc = "FORMATTING"
  /\ \E now \in Timestamps : payload' = format_discord_payload(summaries, now)
  /\ pc' = "DELIVERING"
  /\ UNCHANGED << fn_call, fn_result, args, env_values, config, lookback, max_emails, tmp_created, tmp,
                  emails, rows, idx, summaries, attempts, pending, outcome, exit_code,
                  export_calls, gemini_calls, discord_calls, log >>

\* main(), lines 225-227: one post; its failure is logged and raised on.
Deliver ==
  /\ pc = "DELIVERING"
  /\ \E answer \in DiscordOutcomes :
       /\ discord_calls' = Append(discord_calls,
                                  [url |-> config["DISCORD_WEBHOOK"][1], payload |-> payload])
       /\ IF answer = "ok"
          THEN /\ log' = Append(log, <<"Posted summaries to Discord.", IntToStr(Len(summaries))>>)
               /\ pending' = Return(0)
               /\ outcome' = "DONE"
          ELSE /\ log' = Append(log, <<"Discord " \o answer>>)
               /\ pending' = Raise(answer, 0)
               /\ outcome' = "FAILED"
  /\ pc' = "FINALLY"
  /\ UNCHANGED << fn_call, fn_result, args, env_values, config, lookback, max_emails, tmp_created, tmp,
                  emails, rows, idx, summaries, attempts, payload, exit_code,
                  export_calls, gemini_calls >>

\* A finally block that leaves the file where it is.
Unlink_Kept(file) == file

\* Path.unlink(missing_ok=True): the path is gone afterwards, whether or
\* not a file was there.
Unlink(file) == NoFile

\* main(), lines 228-232: the finally block, on every way out of the try.
Finally ==
  /\ pc = "FINALLY"
  /\ tmp' = Unlink(tmp)
  /\ pc' = "HANDLER"
  /\ UNCHANGED << fn_call, fn_result, args, env_values, config, lookback, max_emails, tmp_created, emails,
                  rows, idx, summaries, attempts, payload, pending, outcome, exit_code,
                  export_calls, gemini_calls, discord_calls, log >>

\* A handler that exits 1 on a CalledProcessError, whatever its status.
ExitStatus_FixedExportCode(result) ==
  IF result.kind = "return" THEN result.code
  ELSE IF result.exc = "ConfigError" THEN ConfigErrorExit
  ELSE IF result.exc = "CalledProcessError" THEN 1
  ELSE UncaughtExit

\* A handler that swallows every other exception and exits 0.
ExitStatus_SwallowOthers(result) ==
  IF result.kind = "return" THEN result.code
  ELSE IF result.exc = "ConfigError" THEN ConfigErrorExit
  ELSE IF result.exc = "CalledProcessError" THEN result.code
  ELSE 0

\* The __main__ block (lines 235-243): sys.exit of main()'s value, 1 for a
\* ConfigError, the export's own status for a CalledProcessError; any other
\* exception is not caught.
ExitStatus(result) ==
  IF result.kind = "return" THEN result.code
  ELSE IF result.exc = "ConfigError" THEN ConfigErrorExit
  ELSE IF result.exc = "CalledProcessError" THEN result.code
  ELSE UncaughtExit

ExitHandler ==
  /\ pc = "HANDLER"
  /\ exit_code' = ExitStatus(pending)
  /\ log' = IF pending.kind = "raise" /\ pending.exc = "ConfigError"
            THEN Append(log, <<"Missing required config keys">>)
            ELSE IF pending.kind = "raise" /\ pending.exc = "CalledProcessError"
            THEN Append(log, <<"AppleScript failed", IntToStr(pending.code)>>)
            ELSE log
  /\ pc' = "EXITED"
  /\ UNCHANGED << fn_call, fn_result, args, env_values, config, lookback, max_emails, tmp_created, tmp,
                  emails, rows, idx, summaries, attempts, payload, pending, outcome,
                  export_calls, gemini_calls, discord_calls >>

Next ==
  \/ Begin
  \/ Mkstemp
  \/ RunApplescript
  \/ ParseTsv
  \/ Cap
  \/ SummarizeOne
  \/ SummarizeReturn
  \/ Format
  \/ Deliver
  \/ Finally
  \/ ExitHandler

Spec == Init /\ [][Next]_vars

\* The run under the assumption that every external call returns or fails
\* and the interpreter goes on to the next statement: a step that can be
\* taken is eventually taken.
SpecFair == Spec /\ WF_vars(Next)

\* ------------------------------------------ functions called on their own
\* format_discord_payload and one request of summarize_emails' loop, called
\* outside a run of main() on arguments main() may or may not produce.
MaxSummaries == 3
MaxCandidates == 2
MaxParts == 2

\* SummaryRecords the formatter may be given: a plain one, one made of the
\* placeholders with an empty summary, a long one, one whose summary reads
\* like a divider line.
SummaryRecords ==
  { [sender |-> Some("Alice"), subject |-> Some("Budget"),
     summary |-> "  Budget needs approval.\n"],
    [sender |-> Some("Unknown"), subject |-> Some("(no subject)"), summary |-> ""],
    [sender |-> Some("Bob"), subject |-> Some("Lunch"), summary |-> LongText],
    [sender |-> Some("Carol"), subject |-> Some("Rule"), summary |-> Divider] }

SummaryLists == UNION {[1..n -> SummaryRecords] : n \in 0..MaxSummaries}

\* The "text" of a part of a response: none, empty, blank, or some text
\* with white space around it.
PartTexts == {None, Some(""), Some("  "), Some(" B\n")}

PartLists == UNION {[1..n -> PartTexts] : n \in 0..MaxParts}

CandidateLists == UNION {[1..n -> PartLists] : n \in 0..MaxCandidates}

Answers == {TransportFailure, HttpFailure} \cup {Response(c) : c \in CandidateLists}

\* The row the request is made for and the summaries made before it.
RowAlice == DictRow(Header, LineAlice)
EarlierSummaries == <<SummaryOf(DictRow(Header, LineBob), "Lunch at noon.")>>

Calls ==
  {[fn |-> "format_discord_payload", arguments |-> <<ss, now>>] :
     ss \in SummaryLists, now \in Timestamps}
  \cup {[fn |-> "gemini_request", arguments |-> <<answer>>] : answer \in Answers}

InitCall ==
  /\ pc = "CALL"
  /\ fn_call \in Calls
  /\ fn_result = <<>>
  /\ args = [dry_run |-> FALSE, lookback |-> None, max_emails |-> None]
  /\ env_values = EnvFull
  /\ config = EmptyDict
  /\ lookback = 0
  /\ max_emails = 0
  /\ tmp_created = FALSE
  /\ tmp = NoFile
  /\ emails = <<>>
  /\ rows = <<>>
  /\ idx = 1
  /\ summaries = <<>>
  /\ attempts = <<>>
  /\ payload = [content |-> ""]
  /\ pending = NoResult
  /\ outcome = ""
  /\ exit_code = 0 - 1
  /\ export_calls = 0
  /\ gemini_calls = <<>>
  /\ discord_calls = <<>>
  /\ log = <<>>

\* format_discord_payload(summaries), at the time given
CallFormat ==
  /\ pc = "CALL"
  /\ fn_call.fn = "format_discord_payload"
  /\ fn_result' = format_discord_payload(fn_call.arguments[1], fn_call.arguments[2])
  /\ pc' = "RETURNED"
  /\ UNCHANGED << fn_call, args, env_values, config, lookback, max_emails, tmp_created,
                  tmp, emails, rows, idx, summaries, attempts, payload, pending,
                  outcome, exit_code, export_calls, gemini_calls, discord_calls, log >>

\* gemini_request with the backend answering as given, and what the loop
\* of summarize_emails (lines 158-164) makes of it for a row.
CallGemini ==
  /\ pc = "CALL"
  /\ fn_call.fn = "gemini_request"
  /\ LET got == gemini_request(fn_call.arguments[1])
     IN fn_result' = [got |-> got,
                      summaries |-> AfterAttempt(EarlierSummaries, RowAlice, got)]
  /\ pc' = "RETURNED"
  /\ UNCHANGED << fn_call, args, env_values, config, lookback, max_emails, tmp_created,
                  tmp, emails, rows, idx, summaries, attempts, payload, pending,
                  outcome, exit_code, export_calls, gemini_calls, discord_calls, log >>

NextCall ==
  \/ CallFormat
  \/ CallGemini

SpecCall == InitCall /\ [][NextCall]_vars

\* ========================================================== the claims
InLog(message) == \E i \in 1..Len(log) : log[i][1] = message

\* main() has returned or raised: the finally block is behind it.
MainFinished == pc \in {"HANDLER", "EXITED"}

\* The try block of main() has been left.
TryLeft == pc \in {"FINALLY", "HANDLER", "EXITED"}

\* Nothing has been formatted yet: the payload is still the initial one.
NotFormatted == payload = [content |-> ""]

\* osascript ran and did not exit non-zero.
ExportSucceeded == export_calls > 0 /\ pending.exc # "CalledProcessError"

\* C1: once main() has finished, on whatever path (a return of any kind, an
\* export or delivery failure, any other exception in the try block), the
\* temporary export file that mkstemp made no longer exists; this also when
\* the export had already removed it.
C1_TempFileRemoved == (tmp_created /\ MainFinished) => ~tmp.exists

\* A run that failed after the file was made, and has ended.
C1_Witness ==
  /\ pc = "EXITED"
  /\ tmp_created
  /\ outcome = "FAILED"
  /\ exit_code # 0
  /\ ~tmp.exists

\* The rows among rs whose attempt (oks, in step with rs) gave a summary.
RECURSIVE Kept(_, _)
Kept(rs, oks) ==
  IF Len(oks) = 0 \/ Len(rs) = 0 THEN <<>>
  ELSE (IF Head(oks) THEN <<Head(rs)>> ELSE <<>>) \o Kept(Tail(rs), Tail(oks))

\* summarize_emails has returned.
SummarizeReturned ==
  \/ pc \in {"FORMATTING", "DELIVERING"}
  \/ outcome \in {"DONE", "DONE_EMPTY_SUMMARY", "DRY_RUN_DONE"}
  \/ Len(discord_calls) > 0

\* C2: in a run that is not a dry run, the summaries are exactly those of the
\* rows whose request did not fail, one each and in the rows' order; every
\* row handled was sent to the backend once, in order, whatever became of
\* the rows before it; and when summarize_emails returns every row has been
\* attempted.
C2_PartialFailure ==
  ~args.dry_run =>
    LET kept == Kept(rows, attempts)
    IN /\ Len(attempts) <= Len(rows)
       /\ Len(gemini_calls) = Len(attempts)
       /\ \A i \in 1..Len(gemini_calls) : gemini_calls[i] = build_prompt(rows[i]).val
       /\ Len(summaries) = Len(kept)
       /\ \A k \in 1..Len(summaries) :
            /\ summaries[k].sender = Get(kept[k], "sender", "Unknown")
            /\ summaries[k].subject = Get(kept[k], "subject", "(no subject)")
       /\ (pc = "SUMMARIZING" => idx = Len(attempts) + 1)
       /\ (SummarizeReturned => Len(attempts) = Len(rows))

\* The second of three requests failed and the digest is made of the first
\* and the third row.
C2_Witness ==
  /\ ~args.dry_run
  /\ pc = "FORMATTING"
  /\ attempts = <<TRUE, FALSE, TRUE>>
  /\ Len(summaries) = 2
  /\ rows[1] # rows[3]
  /\ summaries[2].sender = rows[3]["sender"]

\* rs is in descending order of received_at.
IsDescending(rs) ==
  \A i \in 1..Len(rs) : \A j \in (i + 1)..Len(rs) :
    ~StrLess(Str(SortKey(rs[i])), Str(SortKey(rs[j])))

Capped == pc \notin {"START", "MKSTEMP", "EXPORTING", "PARSING", "CAPPING"}

\* C3: with max_emails = N >= 0 and more than N parsed rows, the rows given
\* to summarize_emails are exactly the first N of the parsed sequence, which
\* is in descending order of received_at; no summarization request is made
\* before the cap is applied, and never more than N are made.
C3_CapInvariant ==
  /\ (pc = "CAPPING" => gemini_calls = <<>> /\ summaries = <<>> /\ attempts = <<>>)
  /\ (Capped /\ max_emails >= 0 /\ Len(emails) > max_emails) =>
       /\ Len(rows) = max_emails
       /\ rows = SubSeq(emails, 1, max_emails)
       /\ IsDescending(emails)
       /\ Len(attempts) <= max_emails
       /\ Len(gemini_calls) <= max_emails

\* Three rows parsed, a cap of two, and both rows of the cap summarized.
C3_Witness ==
  /\ pc = "FORMATTING"
  /\ max_emails = 2
  /\ Len(emails) = 3
  /\ Len(rows) = 2
  /\ emails[2] # emails[3]
  /\ Len(gemini_calls) = 2

RECURSIVE AllSynthetic(_)
AllSynthetic(ss) ==
  \/ Len(ss) = 0
  \/ /\ Head(ss).summary = "[dry-run] " \o PromptHead
     /\ AllSynthetic(Tail(ss))

\* C4: in a dry run the run is never about to format or deliver, and no
\* request goes to the summarization backend or to the webhook; once the
\* synthetic summaries are made, the run logs them, returns 0 and exits 0.
C4_DryRunNoSideEffect ==
  args.dry_run =>
    /\ pc \notin {"FORMATTING", "DELIVERING"}
    /\ gemini_calls = <<>>
    /\ discord_calls = <<>>
    /\ NotFormatted
    /\ AllSynthetic(summaries)
    /\ (TryLeft /\ pending.kind = "return" /\ Len(summaries) > 0) => outcome = "DRY_RUN_DONE"
    /\ outcome = "DRY_RUN_DONE" =>
         /\ pending = Return(0)
         /\ Len(summaries) > 0
         /\ Len(log) >= Len(summaries)
         /\ SubSeq(log, Len(log) - Len(summaries) + 1, Len(log)) = DryRunLines(summaries)
         /\ (pc = "EXITED" => exit_code = 0)

\* A dry run without credentials that summarized two rows and exited 0.
C4_Witness ==
  /\ args.dry_run
  /\ Missing(config) # {}
  /\ pc = "EXITED"
  /\ outcome = "DRY_RUN_DONE"
  /\ Len(summaries) = 2
  /\ exit_code = 0

\* The export has no rows: no file at the path, or no line that gives a row.
ExportEmpty(file) == ~file.exists \/ Len(NonEmptyRows(DictReader(file.rows))) = 0

\* C5: when the export succeeded and left no file or no rows, the parse
\* gives the empty sequence without raising and the run ends with exit code
\* 0, with no summarization request, no formatting and no post.
C5_EmptyExport ==
  /\ (pc = "FINALLY" /\ ExportSucceeded /\ ExportEmpty(tmp)) =>
       /\ outcome = "DONE_EMPTY_EXPORT"
       /\ pending = Return(0)
  /\ outcome = "DONE_EMPTY_EXPORT" =>
       /\ pending = Return(0)
       /\ emails = <<>>
       /\ summaries = <<>>
       /\ gemini_calls = <<>>
       /\ discord_calls = <<>>
       /\ NotFormatted
       /\ (pc = "EXITED" => exit_code = 0)

\* A run that found no file at the export path and exited 0.
C5_Witness ==
  /\ pc = "EXITED"
  /\ outcome = "DONE_EMPTY_EXPORT"
  /\ InLog("No TSV export found")
  /\ exit_code = 0
  /\ gemini_calls = <<>>
  /\ discord_calls = <<>>

\* Every row given to summarize_emails was attempted and none gave a summary.
AllAttemptsFailed ==
  /\ Len(rows) > 0
  /\ Len(attempts) = Len(rows)
  /\ \A i \in 1..Len(attempts) : ~attempts[i]

\* C6: the run formats and posts only with at least one summary in hand;
\* when rows were parsed and every summarization request failed, the run
\* ends as DONE_EMPTY_SUMMARY with exit code 0, not as a failure, and
\* nothing is formatted or posted.
C6_NoEmptyDigest ==
  /\ (pc \in {"FORMATTING", "DELIVERING"} \/ Len(discord_calls) > 0 \/ ~NotFormatted) =>
       Len(summaries) >= 1
  /\ (AllAttemptsFailed /\ pc # "SUMMARIZING") =>
       /\ outcome = "DONE_EMPTY_SUMMARY"
       /\ pending = Return(0)
       /\ discord_calls = <<>>
       /\ NotFormatted
       /\ (pc = "EXITED" => exit_code = 0)

\* Two rows parsed, both requests failed, and the run exited 0.
C6_Witness ==
  /\ pc = "EXITED"
  /\ attempts = <<FALSE, FALSE>>
  /\ Len(emails) = 2
  /\ outcome = "DONE_EMPTY_SUMMARY"
  /\ exit_code = 0

ParseLogged ==
  \/ InLog("No TSV export found")
  \/ InLog("No unread emails found in lookback window; exiting.")
  \/ InLog("Read unread emails from Apple Mail")

\* C7: when osascript exits with a non-zero status the run fails without
\* parsing, summarizing, formatting or posting anything, and the process
\* exits with that same status.
C7_ExportFailure ==
  pending.exc = "CalledProcessError" =>
    /\ outcome = "FAILED"
    /\ TryLeft
    /\ pending.code # 0
    /\ ~ParseLogged
    /\ emails = <<>>
    /\ rows = <<>>
    /\ attempts = <<>>
    /\ summaries = <<>>
    /\ gemini_calls = <<>>
    /\ discord_calls = <<>>
    /\ NotFormatted
    /\ (pc = "EXITED" =>
          /\ exit_code = pending.code
          /\ log[Len(log)] = <<"AppleScript failed", IntToStr(exit_code)>>)

\* osascript exited 2 and so did the run.
C7_Witness ==
  /\ pc = "EXITED"
  /\ pending.exc = "CalledProcessError"
  /\ pending.code = 2
  /\ exit_code = 2

\* The post to the webhook failed.
DeliveryFailed == InLog("Discord HTTPError") \/ InLog("Discord URLError")

\* C8: a failed post ends the run as FAILED with a non-zero exit code; the
\* post was made once and is not made again, and the run does not log
\* "Posted" nor exit 0 after it.
C8_DeliveryFailure ==
  /\ Len(discord_calls) <= 1
  /\ DeliveryFailed =>
       /\ outcome = "FAILED"
       /\ TryLeft
       /\ pending.kind = "raise"
       /\ Len(discord_calls) = 1
       /\ ~InLog("Posted summaries to Discord.")
       /\ (pc = "EXITED" => exit_code # 0)

\* The webhook answered with an HTTP error and the run exited non-zero.
C8_Witness ==
  /\ pc = "EXITED"
  /\ InLog("Discord HTTPError")
  /\ Len(discord_calls) = 1
  /\ Len(summaries) >= 1
  /\ exit_code # 0

\* GEMINI_API_KEY or DISCORD_WEBHOOK is absent from the .env file or empty.
CredentialMissing ==
  \E k \in {"GEMINI_API_KEY", "DISCORD_WEBHOOK"} :
    k \notin DOMAIN env_values \/ env_values[k] = Some("")

\* The outcomes that end with main() returning.
ReturnOutcomes == {"DONE", "DONE_EMPTY_EXPORT", "DONE_EMPTY_SUMMARY", "DRY_RUN_DONE"}

\* C9 without its clause on the exit code being distinct: a missing
\* credential outside a dry run ends the run with exit code 1 before the
\* temporary file is made and before any export, summarization or post; in
\* a dry run it is no error and the run goes on to make the file.
C9_Core ==
  /\ (CredentialMissing /\ ~args.dry_run) =>
       /\ pc \in {"START", "HANDLER", "EXITED"}
       /\ (pc # "START" => outcome = "CONFIG_ERROR" /\ pending.exc = "ConfigError")
       /\ ~tmp_created
       /\ export_calls = 0
       /\ gemini_calls = <<>>
       /\ discord_calls = <<>>
       /\ (pc = "EXITED" => exit_code = ConfigErrorExit)
  /\ (CredentialMissing /\ args.dry_run) =>
       /\ outcome # "CONFIG_ERROR"
       /\ pending.exc # "ConfigError"
       /\ (pc # "START" => pc = "MKSTEMP" \/ tmp_created)
  /\ outcome = "CONFIG_ERROR" => (CredentialMissing /\ ~args.dry_run)

\* C9 (as amended): C9_Core, and the exit code 1 of the configuration error
\* differs from the exit code of every outcome in which main() returns
\* (DONE, DONE_EMPTY_EXPORT, DONE_EMPTY_SUMMARY, dry-run completion).
C9_ConfigError ==
  /\ C9_Core
  /\ (pc = "EXITED" /\ outcome \in ReturnOutcomes) => exit_code # ConfigErrorExit

\* C9 (as claimed): C9_Core, and the exit code 1 of the configuration error
\* differs from the exit code of every other outcome, the export failure
\* and the delivery failure included.
C9_AsClaimed ==
  /\ C9_Core
  /\ (/\ pc = "EXITED"
      /\ \/ outcome \in ReturnOutcomes
         \/ pending.exc = "CalledProcessError"
         \/ DeliveryFailed) => exit_code # ConfigErrorExit

\* A run without the API key, not a dry run, that exited 1.
C9_Witness ==
  /\ pc = "EXITED"
  /\ ~args.dry_run
  /\ "GEMINI_API_KEY" \notin DOMAIN env_values
  /\ outcome = "CONFIG_ERROR"
  /\ exit_code = 1

\* C10: the content of the payload, and of every payload posted, is at most
\* 1900 characters long; it is the first 1900 characters of the assembled
\* digest when that is longer, and the assembled digest itself when not.
C10_DigestBound ==
  /\ Len(payload.content) <= ContentCap
  /\ \A i \in 1..Len(discord_calls) :
       /\ discord_calls[i].payload = payload
       /\ Len(discord_calls[i].payload.content) <= ContentCap
  /\ pc = "DELIVERING" =>
       \E now \in Timestamps :
         LET assembled == AssembledContent(summaries, now)
         IN IF Len(assembled) > ContentCap
            THEN /\ Len(payload.content) = ContentCap
                 /\ payload.content = SubSeq(assembled, 1, ContentCap)
            ELSE payload.content = assembled

\* A digest of two long summaries, cut to 1900 characters, has been posted.
C10_Witness ==
  /\ Len(discord_calls) = 1
  /\ Len(summaries) = 2
  /\ Len(summaries[1].summary) + Len(summaries[2].summary) > ContentCap
  /\ Len(discord_calls[1].payload.content) = ContentCap

\* The rows csv.DictReader reads from the export at the temporary path.
ReadRows == NonEmptyRows(DictReader(tmp.rows))

\* The export has been parsed: osascript succeeded and the run is past
\* parse_tsv with the file still in place.
Parsed ==
  /\ ExportSucceeded
  /\ tmp.exists
  /\ pc \in {"CAPPING", "SUMMARIZING", "FORMATTING", "DELIVERING", "FINALLY"}

\* A row's received_at with a missing one read as the empty string.
KeyOrEmpty(row) ==
  IF "received_at" \in DOMAIN row /\ ~IsNone(row["received_at"])
  THEN row["received_at"][1]
  ELSE ""

DistinctKeys(rs) ==
  \A i \in 1..Len(rs) : \A j \in 1..Len(rs) :
    i # j => KeyOrEmpty(rs[i]) # KeyOrEmpty(rs[j])

\* C11: whenever the exported rows have distinct received_at strings (a
\* missing one counting as the empty string), parse_tsv returns every one of
\* them, each before every row with a smaller received_at, so that a row
\* without a received_at comes last.
C11_ParserOrdering ==
  (Parsed /\ DistinctKeys(ReadRows)) =>
    /\ Len(emails) = Len(ReadRows)
    /\ \A i \in 1..Len(ReadRows) : \E k \in 1..Len(emails) :
         KeyOrEmpty(emails[k]) = KeyOrEmpty(ReadRows[i])
    /\ \A i \in 1..Len(emails) : \A j \in (i + 1)..Len(emails) :
         StrLess(KeyOrEmpty(emails[j]), KeyOrEmpty(emails[i]))

\* The same for exports in which no row lacks a field of the header.
C11_CompleteRows ==
  (/\ Parsed
   /\ DistinctKeys(ReadRows)
   /\ \A i \in 1..Len(ReadRows) : \A f \in DOMAIN ReadRows[i] : ~IsNone(ReadRows[i][f])) =>
    /\ Len(emails) = Len(ReadRows)
    /\ \A i \in 1..Len(emails) : \A j \in (i + 1)..Len(emails) :
         StrLess(KeyOrEmpty(emails[j]), KeyOrEmpty(emails[i]))

\* A field of a row is missing: its column is not in the header, the row
\* was too short to have it, or it is there and empty.
FieldMissing(row, field) ==
  field \notin DOMAIN row \/ IsNone(row[field]) \/ row[field] = Some("")

\* What a field should read as with a placeholder for a missing one.
WithPlaceholder(row, field, placeholder) ==
  IF FieldMissing(row, field) THEN placeholder ELSE row[field][1]

PlaceholderPrompt(row) ==
  PromptHead \o "\n"
    \o "Sender: " \o WithPlaceholder(row, "sender", "Unknown") \o "\n"
    \o "Subject: " \o WithPlaceholder(row, "subject", "(no subject)") \o "\n"
    \o "Received: " \o Str(Get(row, "received_at", "")) \o "\n"
    \o "Body:\n" \o SliceTo(Str(Get(row, "body", "")), BodyCap) \o "\n"

\* C12: the sender and subject of every prompt sent and of every
\* SummaryRecord made are non-empty: those of the row, or "Unknown" and
\* "(no subject)" where the row's field is absent from the header, missing
\* from a short row, or present but empty.
C12_Placeholders ==
  /\ \A i \in 1..Len(gemini_calls) : gemini_calls[i] = PlaceholderPrompt(rows[i])
  /\ \A k \in 1..Len(summaries) :
       /\ summaries[k].sender \notin {None, Some("")}
       /\ summaries[k].subject \notin {None, Some("")}
       /\ \E i \in 1..Len(rows) :
            /\ summaries[k].sender = Some(WithPlaceholder(rows[i], "sender", "Unknown"))
            /\ summaries[k].subject = Some(WithPlaceholder(rows[i], "subject", "(no subject)"))

\* The same for rows of an export whose header has no sender or subject column.
C12_AbsentColumns ==
  \A k \in 1..Len(summaries) :
    (\A i \in 1..Len(rows) : {"sender", "subject"} \cap DOMAIN rows[i] = {}) =>
      /\ summaries[k].sender = Some("Unknown")
      /\ summaries[k].subject = Some("(no subject)")

\* C13: once osascript has succeeded, whatever rows the export holds (short
\* rows, rows without a received_at or a body), nothing raises out of
\* parse_tsv, the sort, build_prompt or summarize_emails: unless the post
\* fails, main() returns, and the run ends in DONE, DONE_EMPTY_EXPORT,
\* DONE_EMPTY_SUMMARY or as a finished dry run, in a dry run and outside one.
C13_NoEscalation ==
  (TryLeft /\ ExportSucceeded /\ ~DeliveryFailed) =>
    /\ pending.kind = "return"
    /\ outcome \in ReturnOutcomes
    /\ (pc = "EXITED" => exit_code = 0)

\* The place of a stage in the order export, parse, cap, summarize, format,
\* deliver.
StageRank(stage) ==
  CASE stage = "START" -> 0
    [] stage = "MKSTEMP" -> 1
    [] stage = "EXPORTING" -> 2
    [] stage = "PARSING" -> 3
    [] stage = "CAPPING" -> 4
    [] stage = "SUMMARIZING" -> 5
    [] stage = "FORMATTING" -> 6
    [] stage = "DELIVERING" -> 7
    [] stage = "FINALLY" -> 8
    [] stage = "HANDLER" -> 9
    [] stage = "EXITED" -> 10

\* What holds in every state of a run that is not a dry run: the requests
\* made so far are one each for the first rows given to summarize_emails, in
\* the rows' order, which is most recent first; the digest is formatted only
\* when every row has had its request; at most one post is made, and it
\* carries the formatted digest.
C14_State ==
  ~args.dry_run =>
    /\ Len(gemini_calls) <= Len(rows)
    /\ Len(gemini_calls) = Len(attempts)
    /\ \A i \in 1..Len(gemini_calls) : gemini_calls[i] = build_prompt(rows[i]).val
    /\ IsDescending(rows)
    /\ (pc \in {"FORMATTING", "DELIVERING"} \/ ~NotFormatted) =>
         /\ Len(rows) > 0
         /\ Len(gemini_calls) = Len(rows)
    /\ (pc \in {"START", "MKSTEMP", "EXPORTING", "PARSING", "CAPPING", "SUMMARIZING",
                "FORMATTING"}) => NotFormatted /\ discord_calls = <<>>
    /\ Len(discord_calls) <= 1
    /\ Len(discord_calls) = 1 => ~NotFormatted /\ discord_calls[1].payload = payload

\* What holds of every step of such a run: the stages only move forward and
\* only the summarizing stage is repeated; a request is made only while
\* summarizing, is for the row the loop is at, and moves the loop on; the
\* digest is made only in the step from formatting to delivering, and the
\* post only in the step that leaves delivering.
C14_Step ==
  ~args.dry_run =>
    /\ StageRank(pc') >= StageRank(pc)
    /\ pc' = pc => pc = "SUMMARIZING"
    /\ export_calls' # export_calls => pc = "EXPORTING" /\ export_calls' = export_calls + 1
    /\ emails' # emails => pc = "PARSING"
    /\ rows' # rows => pc = "CAPPING"
    /\ gemini_calls' # gemini_calls =>
         /\ pc = "SUMMARIZING"
         /\ gemini_calls' = Append(gemini_calls, build_prompt(rows[idx]).val)
         /\ idx' = idx + 1
    /\ (pc = "SUMMARIZING" /\ pc' = "SUMMARIZING") => Len(gemini_calls') = Len(gemini_calls) + 1
    /\ payload' # payload => pc = "FORMATTING" /\ pc' = "DELIVERING"
    /\ pc = "FORMATTING" => pc' = "DELIVERING" /\ payload' # payload
    /\ discord_calls' # discord_calls => pc = "DELIVERING" /\ pc' = "FINALLY"
    /\ pc = "DELIVERING" => Len(discord_calls') = 1

\* C14: in every run that is not a dry run the stages come in the order
\* export, parse, cap, summarize, format, deliver; each row given to
\* summarize_emails gets one request, never a second, in most-recent-first
\* order; the digest is formatted once, after the last request; the post is
\* made at most once and only after the formatting.
C14_StageOrder == [](C14_State) /\ [][C14_Step]_vars

C14_Witness ==
  /\ ~args.dry_run
  /\ outcome = "DONE"
  /\ Len(rows) = 2
  /\ Len(gemini_calls) = 2
  /\ attempts = <<FALSE, TRUE>>
  /\ Len(discord_calls) = 1

\* The entries of a digest as the layout has them: for each record a line
\* break, the bold "sender ~ subject" line, the trimmed summary, and after
\* every record but the last a divider line.
RECURSIVE LaidOut(_)
LaidOut(ss) ==
  IF Len(ss) = 0 THEN ""
  ELSE "\n**" \o Str(Head(ss).sender) \o " ~ " \o Str(Head(ss).subject) \o "**"
         \o "\n" \o Strip(Head(ss).summary)
         \o (IF Len(ss) > 1 THEN "\n" \o Divider ELSE "")
         \o LaidOut(Tail(ss))

\* C15: format_discord_payload on no records returns the header line alone;
\* on n > 0 records whose laid-out digest is at most 1900 characters it
\* returns the header line, then for each record in order its bold
\* "sender ~ subject" line and its trimmed summary, a divider line between
\* two records and none after the last.
C15_DigestLayout ==
  (pc = "RETURNED" /\ fn_call.fn = "format_discord_payload") =>
    LET ss == fn_call.arguments[1]
        header == "**UTD Mail Digest - " \o fn_call.arguments[2] \o "**"
    IN /\ Len(ss) = 0 => fn_result.content = header
       /\ (Len(ss) > 0 /\ Len(header \o LaidOut(ss)) <= ContentCap) =>
            fn_result.content = header \o LaidOut(ss)

C15_Witness ==
  /\ pc = "RETURNED"
  /\ fn_call.fn = "format_discord_payload"
  /\ Len(fn_call.arguments[1]) = 3
  /\ fn_call.arguments[1][3].summary = Divider
  /\ fn_call.arguments[1][1].summary = "  Budget needs approval.\n"
  /\ Len(fn_result.content) < ContentCap

\* Every row given to summarize_emails has a body to build a prompt from.
RowsHaveBody == \A i \in 1..Len(rows) : ~IsNone(Get(rows[i], "body", ""))

TextPlaces(cands) ==
  UNION {{<<c, p>> : p \in {q \in 1..Len(cands[c]) : cands[c][q] \notin {None, Some("")}}} :
           c \in 1..Len(cands)}

FirstPlace(cands) ==
  CHOOSE x \in TextPlaces(cands) :
    \A y \in TextPlaces(cands) : x[1] < y[1] \/ (x[1] = y[1] /\ x[2] <= y[2])

GeminiReturned == pc = "RETURNED" /\ fn_call.fn = "gemini_request"

\* C17 as claimed: gemini_request returns the first non-empty text itself.
C17_AsClaimed ==
  (GeminiReturned /\ fn_call.arguments[1].kind = "response") =>
    LET cands == fn_call.arguments[1].candidates
    IN TextPlaces(cands) # {} =>
         fn_result.got = Returned(cands[FirstPlace(cands)[1]][FirstPlace(cands)[2]][1])

\* C17: on a response, gemini_request returns the first non-empty text,
\* candidates in order and parts in order within each, with the white space
\* around it stripped (a text of white space only comes back as ""); with no
\* non-empty text at all it raises RuntimeError, and the loop of
\* summarize_emails then leaves the summaries as they were, as it does when
\* the request fails in transport or with an HTTP error.
C17_ResponseParsing ==
  GeminiReturned =>
    LET answer == fn_call.arguments[1]
        cands == answer.candidates
    IN /\ (answer.kind = "response" /\ TextPlaces(cands) # {}) =>
            /\ fn_result.got =
                 Returned(Strip(cands[FirstPlace(cands)[1]][FirstPlace(cands)[2]][1]))
            /\ fn_result.summaries =
                 Append(EarlierSummaries, SummaryOf(RowAlice, fn_result.got.val))
       /\ (answer.kind = "response" /\ TextPlaces(cands) = {}) =>
            /\ fn_result.got = Raised("RuntimeError")
            /\ fn_result.summaries = EarlierSummaries
       /\ answer.kind # "response" =>
            /\ fn_result.got.exc \in {"URLError", "HTTPError"}
            /\ fn_result.summaries = EarlierSummaries

C17_Witness ==
  /\ GeminiReturned
  /\ fn_call.arguments[1] = Response(<< <<None, Some("")>>, <<Some(" B\n"), Some("  ")>> >>)
  /\ fn_result.got = Returned("B")

\* C18: for every max_emails, negative ones and 0 included, and any number
\* M of parsed rows, the rows given to summarize_emails (and so the requests
\* made) are at most max(0, max_emails) and at most M; with max_emails = 0
\* and M > 0 no request is made and the run ends in DONE_EMPTY_SUMMARY with
\* exit code 0.
C18_CapBounds ==
  Capped =>
    /\ Len(rows) <= Max(0, max_emails)
    /\ Len(rows) <= Len(emails)
    /\ Len(attempts) <= Len(rows)
    /\ Len(gemini_calls) <= Len(rows)
    /\ (max_emails = 0 /\ Len(emails) > 0) =>
         /\ gemini_calls = <<>>
         /\ summaries = <<>>
         /\ TryLeft => outcome = "DONE_EMPTY_SUMMARY"
         /\ pc = "EXITED" => exit_code = 0

\* The same for max_emails >= 0.
C18_NonNegativeCap == max_emails >= 0 => C18_CapBounds

TerminalOutcomes ==
  {"DONE", "DONE_EMPTY_EXPORT", "DONE_EMPTY_SUMMARY", "DRY_RUN_DONE", "CONFIG_ERROR", "FAILED"}

\* Once the run has its outcome it keeps it, and all that follows is the
\* finally block and the exit: no stage is entered and no external call made.
C19_Step ==
  /\ pc # "EXITED"
  /\ outcome # "" =>
       /\ outcome' = outcome
       /\ pc \in {"FINALLY", "HANDLER"}
       /\ pc' \in {"HANDLER", "EXITED"}
       /\ UNCHANGED <<emails, rows, idx, summaries, attempts, payload,
                      export_calls, gemini_calls, discord_calls>>

\* C19: every run eventually exits; when it has, its outcome is one of
\* DONE, DONE_EMPTY_EXPORT, DONE_EMPTY_SUMMARY, the end of a dry run, a
\* configuration error and FAILED, it has an exit code, the outcome was set
\* once, and no step follows.
C19_Termination ==
  /\ <>(pc = "EXITED")
  /\ [](pc = "EXITED" => outcome \in TerminalOutcomes /\ exit_code >= 0)
  /\ [](pc \in {"HANDLER", "EXITED"} <=> outcome # "" /\ pc # "FINALLY")
  /\ [][C19_Step]_vars

C19_Witness ==
  /\ pc = "EXITED"
  /\ outcome = "DONE"
  /\ attempts = <<TRUE, FALSE, TRUE>>
  /\ exit_code = 0

\* The stages between mkstemp and the end of the finally block.
TempFileStages ==
  {"EXPORTING", "PARSING", "CAPPING", "SUMMARIZING", "FORMATTING", "DELIVERING", "FINALLY"}

\* C20: the temporary file is made only once the configuration is resolved
\* and valid (no credential missing outside a dry run, both numbers read);
\* a run that ends in a configuration error never made it; a file is at the
\* temporary path only between mkstemp and the finally block, and none is
\* there once main() has finished, however it finished.
C20_TempFileLifetime ==
  /\ pc \in {"START", "MKSTEMP"} => ~tmp_created /\ ~tmp.exists
  /\ tmp_created =>
       /\ config # EmptyDict
       /\ args.dry_run \/ ~CredentialMissing
       /\ max_emails = ParseInt(config["MAX_EMAILS"][1]).val
       /\ outcome # "CONFIG_ERROR"
  /\ outcome = "CONFIG_ERROR" => ~tmp_created /\ ~tmp.exists /\ export_calls = 0
  /\ tmp.exists => tmp_created /\ pc \in TempFileStages
  /\ MainFinished => ~tmp.exists

C20_Witness ==
  /\ pc = "EXITED"
  /\ outcome = "CONFIG_ERROR"
  /\ env_values = EnvEmptyDiscord
  /\ ~tmp_created
  /\ ~tmp.exists

====
